---- MODULE Spec2Model ----
(***************************************************************************)
(* Model of the wrpl replay parser: the incremental decompression reader,  *)
(* the byte cursor, the variable-length size decoder, the packet header    *)
(* decoder and the packet stream driver (module parser), and the payload   *)
(* deserializers (module deserializer).                                    *)
(*                                                                         *)
(* Numbers wider than 31 bits (the std::int64_t payload size, the          *)
(* std::uint32_t timestamp) are kept as two 16-bit limbs [hi, lo] with     *)
(* value hi * 65536 + lo; the invalid size -1 is [hi |-> -1, lo |-> 65535].*)
(***************************************************************************)
EXTENDS Integers, Sequences, FiniteSets, TLC

VARIABLES
  \* ---- decompressed_stream_reader -------------------------------------
  zdata,            \* the compressed source: a sequence of input units
  zpos,             \* units extracted from compressed_stream_ so far
  zeofbit,          \* compressed_stream_.eof()
  avail_in,         \* z_stream_.avail_in
  zpend,            \* output decoded inside the inflate engine, not yet written
  zdone,            \* the inflate engine has seen the end of the stream
  buffer,           \* buffer_
  eof_compressed,   \* eof_compressed_
  \* ---- process_stream -------------------------------------------------
  pc,               \* position in process_stream
  packet_index,
  last_timestamp_ms,
  total_decompressed_bytes_processed,
  payload_size,     \* declared size of the frame being read
  prefix_bytes_read,
  reports,          \* the packets reported so far ("Parsed Header ..." records)
  stop,             \* why the loop was left
  last_read,        \* request and result of the latest stream.read call
  \* ---- pure functions under test --------------------------------------
  fn_in,            \* input handed to the function
  fn_out            \* its result

vars == <<zdata, zpos, zeofbit, avail_in, zpend, zdone, buffer, eof_compressed,
          pc, packet_index, last_timestamp_ms,
          total_decompressed_bytes_processed, payload_size, prefix_bytes_read,
          reports, stop, last_read, fn_in, fn_out>>

reader_vars == <<zdata, zpos, zeofbit, avail_in, zpend, zdone, buffer, eof_compressed>>

driver_vars == <<packet_index, last_timestamp_ms,
                 total_decompressed_bytes_processed, payload_size,
                 prefix_bytes_read, reports, stop, last_read>>

fn_vars == <<fn_in, fn_out>>

----------------------------------------------------------------------------
(* Bounds of the model *)

\* pieces concatenated into one decompressed stream
MaxPieces == 2
\* scaled CHUNK_SIZE (16 * 1024 in the program): units per input read and
\* bytes per inflate call
CHUNK_SIZE == 3
\* most decompressed bytes one unit of compressed input can expand to
MaxExpand == 2

\* longest payload handed to a deserializer
MaxPayload == 5

----------------------------------------------------------------------------
(* Bit operations on naturals below 2^31 *)

Min(a, b) == IF a < b THEN a ELSE b

RECURSIVE BitAnd(_, _)
BitAnd(a, b) ==
  IF a = 0 \/ b = 0 THEN 0
  ELSE (a % 2) * (b % 2) + 2 * BitAnd(a \div 2, b \div 2)

RECURSIVE BitOr(_, _)
BitOr(a, b) ==
  IF a = 0 THEN b
  ELSE IF b = 0 THEN a
  ELSE (IF a % 2 = 1 \/ b % 2 = 1 THEN 1 ELSE 0) + 2 * BitOr(a \div 2, b \div 2)

RECURSIVE BitXor(_, _)
BitXor(a, b) ==
  IF a = 0 THEN b
  ELSE IF b = 0 THEN a
  ELSE ((a + b) % 2) + 2 * BitXor(a \div 2, b \div 2)

\* x << n
Shl(x, n) == x * (2 ^ n)

\* a non-negative value below 2^31 widened to std::int64_t
ToI64(n) == [hi |-> n \div 65536, lo |-> n % 65536]

\* as U32FromLE, into a signed std::int32_t
U32FromLE_Signed(b) ==
  [hi |-> IF b[4] >= 128 THEN b[3] + 256 * b[4] - 65536 ELSE b[3] + 256 * b[4],
   lo |-> b[1] + 256 * b[2]]

\* 4 bytes copied into a std::uint32_t, read as a little-endian value
U32FromLE(b) == [hi |-> b[3] + 256 * b[4], lo |-> b[1] + 256 * b[2]]

InvalidSize == [hi |-> -1, lo |-> 65535]

IsNegative(w) == w.hi < 0

NullOpt == [has_value |-> FALSE]

Some(v) == [has_value |-> TRUE, value |-> v]

----------------------------------------------------------------------------
(* byte_stream_reader *)

byte_stream_reader(data) == [data_ |-> data, position_ |-> 0]

\* as byte_stream_read, with a short read that leaves the cursor in place
byte_stream_read_ShortKeepsCursor(s, size) ==
  IF s.position_ + size > Len(s.data_)
    THEN [result |-> SubSeq(s.data_, s.position_ + 1, Len(s.data_)), stream |-> s]
    ELSE [result |-> SubSeq(s.data_, s.position_ + 1, s.position_ + size),
          stream |-> [s EXCEPT !.position_ = @ + size]]

\* byte_stream_reader::read: the bytes returned and the cursor afterwards
byte_stream_read(s, size) ==
  LET n == IF s.position_ + size > Len(s.data_)
             THEN Len(s.data_) - s.position_
             ELSE size
  IN [result |-> SubSeq(s.data_, s.position_ + 1, s.position_ + n),
      stream |-> [s EXCEPT !.position_ = @ + n]]

remaining_bytes(s) == SubSeq(s.data_, s.position_ + 1, Len(s.data_))

----------------------------------------------------------------------------
(* read_variable_length_size *)

OneByteSize_MaskFF(first_byte) == BitAnd(first_byte, 255)

\* payload_size = first_byte & 0x7F
OneByteSize(first_byte) == BitAnd(first_byte, 127)

Bit6Clear_Unchecked(first_byte) == TRUE

\* (first_byte & 0x40) == 0, under a first byte with the top bit set
Bit6Clear(first_byte) == BitAnd(first_byte, 64) = 0

TwoByteSize_NoXor(first_byte, b1) == BitOr(Shl(first_byte, 8), b1[1])

\* ((first_byte << 8) | b1) ^ 0x4000
TwoByteSize(first_byte, b1) ==
  BitXor(BitOr(Shl(first_byte, 8), b1[1]), 16384)

\* ((first_byte << 16) | (b1 << 8) | b2) ^ 0x200000
ThreeByteSize(first_byte, b) ==
  BitXor(BitOr(BitOr(Shl(first_byte, 16), Shl(b[1], 8)), b[2]), 2097152)

\* ((first_byte << 24) | (b1 << 16) | (b2 << 8) | b3) ^ 0x10000000
FourByteSize(first_byte, b) ==
  BitXor(BitOr(BitOr(BitOr(Shl(first_byte, 24), Shl(b[1], 16)), Shl(b[2], 8)), b[3]),
         268435456)

\* the result, and the cursor after the call
read_variable_length_size(stream) ==
  LET r1 == byte_stream_read(stream, 1)
      first_byte == r1.result[1]
      s1 == r1.stream
      \* the tail shared by all the forms: the negative check and the result
      Finish(size, nread, s) ==
        IF IsNegative(size)
          THEN [result |-> Some([payload_size |-> InvalidSize,
                                 prefix_bytes_read |-> nread]),
                stream |-> s]
          ELSE [result |-> Some([payload_size |-> size,
                                 prefix_bytes_read |-> nread]),
                stream |-> s]
  IN
  IF r1.result = <<>> THEN [result |-> NullOpt, stream |-> s1]
  ELSE IF BitAnd(first_byte, 128) # 0 THEN
    IF Bit6Clear(first_byte)
      THEN Finish(ToI64(OneByteSize(first_byte)), 1, s1)
      ELSE [result |-> Some([payload_size |-> InvalidSize, prefix_bytes_read |-> 1]),
            stream |-> s1]
  ELSE IF BitAnd(first_byte, 64) # 0 THEN
    LET r2 == byte_stream_read(s1, 1) IN
    IF Len(r2.result) < 1 THEN [result |-> NullOpt, stream |-> r2.stream]
    ELSE Finish(ToI64(TwoByteSize(first_byte, r2.result)), 2, r2.stream)
  ELSE IF BitAnd(first_byte, 32) # 0 THEN
    LET r2 == byte_stream_read(s1, 2) IN
    IF Len(r2.result) < 2 THEN [result |-> NullOpt, stream |-> r2.stream]
    ELSE Finish(ToI64(ThreeByteSize(first_byte, r2.result)), 3, r2.stream)
  ELSE IF BitAnd(first_byte, 16) # 0 THEN
    LET r2 == byte_stream_read(s1, 3) IN
    IF Len(r2.result) < 3 THEN [result |-> NullOpt, stream |-> r2.stream]
    ELSE Finish(ToI64(FourByteSize(first_byte, r2.result)), 4, r2.stream)
  ELSE
    LET r2 == byte_stream_read(s1, 4) IN
    IF Len(r2.result) < 4 THEN [result |-> NullOpt, stream |-> r2.stream]
    ELSE Finish(U32FromLE(r2.result), 5, r2.stream)

----------------------------------------------------------------------------
(* read_packet_header_from_stream *)

DeltaType_Literal(first_byte) == first_byte

\* packet_type_val = first_byte ^ 0x10
DeltaType(first_byte) == BitXor(first_byte, 16)

\* memcpy of the 4 timestamp bytes into timestamp_ms (little-endian value)
HeaderTimestamp(ts_bytes) == U32FromLE(ts_bytes)

TruncatedHeader_Fails(packet_type_val, timestamp_ms, bytes_read_for_header) == NullOpt

\* the header returned when fewer than 4 timestamp bytes are left
TruncatedHeader(packet_type_val, timestamp_ms, bytes_read_for_header) ==
  Some([packet_type_val |-> packet_type_val,
        timestamp_ms |-> timestamp_ms,
        bytes_read_for_header |-> bytes_read_for_header])

DeltaTimestamp_Zero(last_ts) == [hi |-> 0, lo |-> 0]

\* std::uint32_t timestamp_ms = last_timestamp_ms
DeltaTimestamp(last_ts) == last_ts

\* the result, and the cursor after the call
read_packet_header_from_stream(data_stream, last_ts) ==
  LET r1 == byte_stream_read(data_stream, 1)
      first_byte == r1.result[1]
      timestamp_ms == DeltaTimestamp(last_ts)
  IN
  IF r1.result = <<>> THEN [result |-> NullOpt, stream |-> r1.stream]
  ELSE IF BitAnd(first_byte, 16) # 0 THEN
    [result |-> Some([packet_type_val |-> DeltaType(first_byte),
                      timestamp_ms |-> timestamp_ms,
                      bytes_read_for_header |-> 1]),
     stream |-> r1.stream]
  ELSE
    LET r2 == byte_stream_read(r1.stream, 4) IN
    IF Len(r2.result) < 4
      THEN [result |-> TruncatedHeader(first_byte, timestamp_ms, 1),
            stream |-> r2.stream]
      ELSE [result |-> Some([packet_type_val |-> first_byte,
                             timestamp_ms |-> HeaderTimestamp(r2.result),
                             bytes_read_for_header |-> 5]),
            stream |-> r2.stream]

get_packet_type_name(type_val) ==
  CASE type_val = 0 -> "end_marker"
    [] type_val = 1 -> "start_marker"
    [] type_val = 2 -> "aircraft_small"
    [] type_val = 3 -> "chat"
    [] type_val = 4 -> "mpi"
    [] type_val = 5 -> "next_segment"
    [] type_val = 6 -> "ecs"
    [] type_val = 7 -> "snapshot"
    [] type_val = 8 -> "replay_header_info"
    [] OTHER -> "unknown"

----------------------------------------------------------------------------
(* The inflate engine behind decompressed_stream_reader.  The compressed   *)
(* source is a sequence of input units; a data unit decodes to at most     *)
(* MaxExpand bytes, an end unit completes the stream, a bad unit is        *)
(* corrupt input.  The engine takes input only when it has written out     *)
(* everything it decoded, and writes at most avail_out bytes per call.     *)

DataUnit(bytes) == [kind |-> "data", bytes |-> bytes]
EndUnit == [kind |-> "end", bytes |-> <<>>]
BadUnit == [kind |-> "bad", bytes |-> <<>>]

RECURSIVE InflateLoop(_)
InflateLoop(st) ==
  IF st.done THEN [st EXCEPT !.ret = "Z_STREAM_END"]
  ELSE IF st.pend # <<>> THEN
    IF st.left = 0 THEN st
    ELSE LET k == Min(Len(st.pend), st.left) IN
         InflateLoop([st EXCEPT !.out = @ \o SubSeq(st.pend, 1, k),
                                !.pend = SubSeq(@, k + 1, Len(@)),
                                !.left = @ - k])
  ELSE IF st.input = <<>> THEN st
  ELSE LET u == Head(st.input) IN
       CASE u.kind = "bad" -> [st EXCEPT !.input = Tail(@), !.ret = "Z_DATA_ERROR"]
         [] u.kind = "end" -> [st EXCEPT !.input = Tail(@), !.done = TRUE,
                                        !.ret = "Z_STREAM_END"]
         [] OTHER -> InflateLoop([st EXCEPT !.input = Tail(@), !.pend = u.bytes])

\* inflate(&z_stream_, flush) with avail_out bytes of room
inflate(pend, done, input, avail_out, flush) ==
  LET st == InflateLoop([pend |-> pend, done |-> done, input |-> input,
                         out |-> <<>>, left |-> avail_out, ret |-> "Z_OK"])
      progress == Len(st.input) < Len(input) \/ st.out # <<>>
  IN [ret |-> IF st.ret = "Z_OK" /\ (~progress \/ flush = "Z_FINISH")
                THEN "Z_BUF_ERROR" ELSE st.ret,
      out |-> st.out,
      avail_in |-> Len(st.input),
      pend |-> st.pend,
      done |-> st.done]

----------------------------------------------------------------------------
(* decompressed_stream_reader *)

\* buffer_.size() < min_bytes, min_bytes a std::size_t given in limbs
SizeLess(n, w) == w.hi > 0 \/ n < w.lo

\* std::min(size, buffer_.size())
SizeMin(w, n) == IF w.hi > 0 THEN n ELSE Min(w.lo, n)

inflate_failed_Never(ret) == FALSE

\* ret != Z_OK && ret != Z_STREAM_END && ret != Z_BUF_ERROR
inflate_failed(ret) == ret \notin {"Z_OK", "Z_STREAM_END", "Z_BUF_ERROR"}

\* as fill_buffer_refill, without the end test on the exhausted source
fill_buffer_refill_NoEndTest(r) ==
  LET refill == r.avail_in = 0 /\ ~r.zeofbit
      n == Min(CHUNK_SIZE, Len(r.zdata) - r.zpos)
  IN [zpos |-> IF refill THEN r.zpos + n ELSE r.zpos,
      zeofbit |-> IF refill THEN n < CHUNK_SIZE ELSE r.zeofbit,
      avail_in |-> IF refill THEN n ELSE r.avail_in,
      eof_compressed |-> r.eof_compressed]

\* the input read and the end test that open an iteration of fill_buffer
fill_buffer_refill(r) ==
  LET refill == r.avail_in = 0 /\ ~r.zeofbit
      n == Min(CHUNK_SIZE, Len(r.zdata) - r.zpos)
      zpos1 == IF refill THEN r.zpos + n ELSE r.zpos
      zeofbit1 == IF refill THEN n < CHUNK_SIZE ELSE r.zeofbit
      avail1 == IF refill THEN n ELSE r.avail_in
  IN [zpos |-> zpos1, zeofbit |-> zeofbit1, avail_in |-> avail1,
      eof_compressed |-> IF avail1 = 0 /\ zeofbit1 THEN TRUE ELSE r.eof_compressed]

\* as fill_buffer_iteration, but leaving the loop as soon as the input is
\* found exhausted, without the last inflate call
fill_buffer_iteration_NoFinalInflate(r) ==
  LET f == fill_buffer_refill(r)
      z == IF f.eof_compressed
             THEN [ret |-> "Z_BUF_ERROR", out |-> <<>>, avail_in |-> f.avail_in,
                   pend |-> r.zpend, done |-> r.zdone]
             ELSE inflate(r.zpend, r.zdone,
                          SubSeq(r.zdata, f.zpos - f.avail_in + 1, f.zpos),
                          CHUNK_SIZE, "Z_NO_FLUSH")
      threw == inflate_failed(z.ret)
  IN [threw |-> threw, zdata |-> r.zdata, zpos |-> f.zpos, zeofbit |-> f.zeofbit,
      avail_in |-> z.avail_in, zpend |-> z.pend, zdone |-> z.done,
      buffer |-> IF threw THEN r.buffer ELSE r.buffer \o z.out,
      eof_compressed |-> IF ~threw /\ z.ret = "Z_STREAM_END"
                           THEN TRUE ELSE f.eof_compressed]

\* one iteration of the while loop of fill_buffer
fill_buffer_iteration(r) ==
  LET f == fill_buffer_refill(r)
      z == inflate(r.zpend, r.zdone,
                   SubSeq(r.zdata, f.zpos - f.avail_in + 1, f.zpos),
                   CHUNK_SIZE,
                   IF f.eof_compressed THEN "Z_FINISH" ELSE "Z_NO_FLUSH")
      threw == inflate_failed(z.ret)
  IN [threw |-> threw, zdata |-> r.zdata, zpos |-> f.zpos, zeofbit |-> f.zeofbit,
      avail_in |-> z.avail_in, zpend |-> z.pend, zdone |-> z.done,
      buffer |-> IF threw THEN r.buffer ELSE r.buffer \o z.out,
      eof_compressed |-> IF ~threw /\ z.ret = "Z_STREAM_END"
                           THEN TRUE ELSE f.eof_compressed]

\* decompressed_stream_reader::read once fill_buffer has returned
stream_read(buf, size) ==
  LET bytes_to_read == SizeMin(size, Len(buf))
  IN [result |-> SubSeq(buf, 1, bytes_to_read),
      buffer |-> SubSeq(buf, bytes_to_read + 1, Len(buf))]

prepend_to_buffer_AtBack(buf, data) == buf \o data

\* decompressed_stream_reader::prepend_to_buffer
prepend_to_buffer(buf, data) == data \o buf

----------------------------------------------------------------------------
(* Deserializers (module deserializer) *)

(* danet::BitStream, the bit reader of deserialize_chat_packet: a read       *)
(* cursor over the bits of the payload, most significant bit of a byte      *)
(* first; a read that needs more bits than are unread fails.                *)

BitStream(data) == [data |-> data, readOffset |-> 0]

GetNumberOfUnreadBits(bs) == 8 * Len(bs.data) - bs.readOffset

GetReadOffset(bs) == bs.readOffset

\* the bit at offset i, counted from 0
BitAt(bs, i) == (bs.data[(i \div 8) + 1] \div (2 ^ (7 - (i % 8)))) % 2

\* the value of the n bits from offset off
RECURSIVE BitsValue(_, _, _)
BitsValue(bs, off, n) ==
  IF n = 0 THEN 0 ELSE 2 * BitsValue(bs, off, n - 1) + BitAt(bs, off + n - 1)

\* Read(std::uint8_t&)
ReadByte(bs) ==
  IF GetNumberOfUnreadBits(bs) < 8
    THEN [ok |-> FALSE, value |-> 0, bs |-> bs]
    ELSE [ok |-> TRUE, value |-> BitsValue(bs, bs.readOffset, 8),
          bs |-> [bs EXCEPT !.readOffset = @ + 8]]

\* Read(char*, n)
ReadBytes(bs, n) ==
  IF GetNumberOfUnreadBits(bs) < 8 * n
    THEN [ok |-> FALSE, value |-> <<>>, bs |-> bs]
    ELSE [ok |-> TRUE,
          value |-> [i \in 1..n |-> BitsValue(bs, bs.readOffset + 8 * (i - 1), 8)],
          bs |-> [bs EXCEPT !.readOffset = @ + 8 * n]]

\* Read(bool&)
ReadBool(bs) ==
  IF GetNumberOfUnreadBits(bs) < 1
    THEN [ok |-> FALSE, value |-> FALSE, bs |-> bs]
    ELSE [ok |-> TRUE, value |-> BitAt(bs, bs.readOffset) = 1,
          bs |-> [bs EXCEPT !.readOffset = @ + 1]]

\* ReadCompressed(std::uint16_t&): groups of 7 bits, low group first, the top
\* bit of a byte announcing another group
RECURSIVE ReadCompressedLoop(_, _, _)
ReadCompressedLoop(bs, i, v) ==
  IF i = 3 THEN [ok |-> TRUE, value |-> v % 65536, bs |-> bs]
  ELSE LET b == ReadByte(bs) IN
       IF ~b.ok THEN [ok |-> FALSE, value |-> 0, bs |-> bs]
       ELSE LET v1 == v + (b.value % 128) * (128 ^ i) IN
            IF b.value < 128
              THEN [ok |-> TRUE, value |-> v1 % 65536, bs |-> b.bs]
              ELSE ReadCompressedLoop(b.bs, i + 1, v1)

ReadCompressed(bs) == ReadCompressedLoop(bs, 0, 0)

\* IgnoreBytes(n) returns nothing; past the end it leaves no bit unread
IgnoreBytes(bs, n) ==
  [bs EXCEPT !.readOffset = Min(@ + 8 * n, 8 * Len(bs.data))]

chat_payload_insufficient_Never(payload) == FALSE

\* deserialize_chat_packet: the payload.empty() test
chat_payload_insufficient(payload) == payload = <<>>

channel_id_present_Always(unread) == TRUE

\* bs.GetNumberOfUnreadBits() >= 8
channel_id_present(unread) == unread >= 8

\* bs.GetNumberOfUnreadBits() >= 1
is_enemy_present(unread) == unread >= 1

\* a bit-level operation as performed: whether the bits it needed were there
\* and how many were unread before it
BitOp(op, ok, bs) == [op |-> op, ok |-> ok, unread |-> GetNumberOfUnreadBits(bs)]

\* bs, result and read_ok at the start of deserialize_chat_packet; ops lists
\* the bit-level operations performed so far
chat_start(payload) ==
  [bs |-> BitStream(payload), read_ok |-> TRUE, ops |-> <<>>,
   sender_name |-> <<>>, message |-> <<>>, is_enemy |-> FALSE, channel_id |-> 0]

\* the ignored field: ReadCompressed(prefix_len), then IgnoreBytes(prefix_len)
chat_ignored(st) ==
  LET c == ReadCompressed(st.bs)
      skip == c.ok /\ c.value > 0
  IN [st EXCEPT
        !.read_ok = c.ok,
        !.bs = IF skip THEN IgnoreBytes(c.bs, c.value) ELSE c.bs,
        !.ops = @ \o <<BitOp("prefix_len", c.ok, st.bs)>> \o
                (IF skip
                   THEN <<BitOp("ignored",
                                GetNumberOfUnreadBits(c.bs) >= 8 * c.value, c.bs)>>
                   ELSE <<>>)]

\* a length read with ReadCompressed and, when it is above 0, that many bytes
\* read into field
chat_string(st, field, len_op) ==
  IF ~st.read_ok THEN st
  ELSE LET c == ReadCompressed(st.bs)
           body == c.ok /\ c.value > 0
           b == ReadBytes(c.bs, c.value)
       IN [st EXCEPT
             !.read_ok = IF body THEN b.ok ELSE c.ok,
             !.bs = IF body THEN b.bs ELSE c.bs,
             ![field] = IF body /\ b.ok THEN b.value ELSE @,
             !.ops = @ \o <<BitOp(len_op, c.ok, st.bs)>> \o
                     (IF body THEN <<BitOp(field, b.ok, c.bs)>> ELSE <<>>)]

chat_sender(st) == chat_string(st, "sender_name", "sender_len")

chat_message(st) == chat_string(st, "message", "message_len")

\* Read(result.channel_id) when 8 unread bits remain
chat_channel_id(st) ==
  IF ~(st.read_ok /\ channel_id_present(GetNumberOfUnreadBits(st.bs))) THEN st
  ELSE LET b == ReadByte(st.bs)
       IN [st EXCEPT !.read_ok = b.ok, !.bs = b.bs,
                     !.channel_id = IF b.ok THEN b.value ELSE @,
                     !.ops = @ \o <<BitOp("channel_id", b.ok, st.bs)>>]

\* Read(result.is_enemy) when 1 unread bit remains
chat_is_enemy(st) ==
  IF ~(st.read_ok /\ is_enemy_present(GetNumberOfUnreadBits(st.bs))) THEN st
  ELSE LET b == ReadBool(st.bs)
       IN [st EXCEPT !.read_ok = b.ok, !.bs = b.bs,
                     !.is_enemy = IF b.ok THEN b.value ELSE @,
                     !.ops = @ \o <<BitOp("is_enemy", b.ok, st.bs)>>]

\* the read_ok test and the value returned
chat_result(st) ==
  IF ~st.read_ok
    THEN [ok |-> FALSE, error |-> "bitstream_read_failure", ops |-> st.ops]
    ELSE [ok |-> TRUE, sender_name |-> st.sender_name, message |-> st.message,
          is_enemy |-> st.is_enemy, channel_id |-> st.channel_id,
          bits_read |-> GetReadOffset(st.bs), ops |-> st.ops]

\* the statements of a function in sequence: F applied to the state in S
Then(S, F(_)) == {F(st) : st \in S}

\* deserialize_chat_packet
deserialize_chat_packet(payload) ==
  IF chat_payload_insufficient(payload)
    THEN [ok |-> FALSE, error |-> "insufficient_data", ops |-> <<>>]
    ELSE CHOOSE r \in
           Then(Then(Then(Then(Then(Then({chat_start(payload)},
             chat_ignored), chat_sender), chat_message),
             chat_channel_id), chat_is_enemy), chat_result) : TRUE

\* memcpy of 2 bytes into a std::uint16_t, in the byte order of the host
NativeU16(b1, b2, native) ==
  IF native = "big" THEN 256 * b1 + b2 ELSE b1 + 256 * b2

\* deserialize_mpi_packet on a host of byte order native (std::endian::native)
deserialize_mpi_packet(payload, native) ==
  IF Len(payload) < 4
    THEN [ok |-> FALSE, error |-> "insufficient_data"]
    ELSE [ok |-> TRUE,
          object_id |-> NativeU16(payload[1], payload[2], native),
          message_id |-> NativeU16(payload[3], payload[4], native),
          payload |-> SubSeq(payload, 5, Len(payload))]

----------------------------------------------------------------------------
(* process_stream *)

ReaderPcs == {"is_eof", "read_prefix", "read_frame"}

Reader == [zdata |-> zdata, zpos |-> zpos, zeofbit |-> zeofbit,
           avail_in |-> avail_in, zpend |-> zpend, zdone |-> zdone,
           buffer |-> buffer, eof_compressed |-> eof_compressed]

\* as FillMin, with an is_eof() that does not pull
FillMin_NoPull ==
  CASE pc = "read_prefix" -> ToI64(5)
    [] pc = "read_frame" -> payload_size
    [] OTHER -> ToI64(0)

\* the min_bytes of the fill_buffer call the driver is in
FillMin ==
  CASE pc = "is_eof" -> ToI64(1)
    [] pc = "read_prefix" -> ToI64(5)
    [] pc = "read_frame" -> payload_size
    [] OTHER -> ToI64(0)

\* the loop condition of fill_buffer
NeedsFill ==
  /\ pc \in ReaderPcs
  /\ SizeLess(Len(buffer), FillMin)
  /\ ~eof_compressed

\* One iteration of fill_buffer, inside is_eof() or read().  An inflate
\* error thrown inside the try block is caught and breaks the loop; thrown
\* by the is_eof() of the loop condition it leaves process_stream.
FillStep ==
  /\ NeedsFill
  /\ LET r == fill_buffer_iteration(Reader) IN
     /\ zpos' = r.zpos
     /\ zeofbit' = r.zeofbit
     /\ avail_in' = r.avail_in
     /\ zpend' = r.zpend
     /\ zdone' = r.zdone
     /\ buffer' = r.buffer
     /\ eof_compressed' = r.eof_compressed
     /\ IF r.threw
          THEN /\ pc' = IF pc = "is_eof" THEN "threw" ELSE "end"
               /\ stop' = IF pc = "is_eof" THEN "uncaught_exception" ELSE "exception"
          ELSE UNCHANGED <<pc, stop>>
  /\ UNCHANGED <<zdata, packet_index, last_timestamp_ms,
                 total_decompressed_bytes_processed, payload_size,
                 prefix_bytes_read, reports, last_read, fn_vars>>

is_eof_result_IgnoresBuffer(eof, buf) == eof

\* return eof_compressed_ && buffer_.empty()
is_eof_result(eof, buf) == eof /\ buf = <<>>

\* while (!stream.is_eof())
IsEof ==
  /\ pc = "is_eof"
  /\ ~NeedsFill
  /\ IF is_eof_result(eof_compressed, buffer)
       THEN pc' = "end" /\ stop' = "eof"
       ELSE pc' = "read_prefix" /\ UNCHANGED stop
  /\ UNCHANGED <<reader_vars, packet_index, last_timestamp_ms,
                 total_decompressed_bytes_processed, payload_size,
                 prefix_bytes_read, reports, last_read, fn_vars>>

\* stream.read(5), read_variable_length_size, prepend_to_buffer
ReadPrefix ==
  /\ pc = "read_prefix"
  /\ ~NeedsFill
  /\ LET rd == stream_read(buffer, ToI64(5))
         size_prefix_bytes == rd.result
         dec == read_variable_length_size(byte_stream_reader(size_prefix_bytes))
     IN
     /\ last_read' = [size |-> ToI64(5), got |-> Len(size_prefix_bytes)]
     /\ IF size_prefix_bytes = <<>>
          THEN /\ pc' = "end"
               /\ stop' = "no_prefix"
               /\ buffer' = rd.buffer
               /\ UNCHANGED <<payload_size, prefix_bytes_read>>
          ELSE IF ~dec.result.has_value \/ IsNegative(dec.result.value.payload_size)
          THEN /\ pc' = "end"
               /\ stop' = "bad_prefix"
               /\ buffer' = rd.buffer
               /\ UNCHANGED <<payload_size, prefix_bytes_read>>
          ELSE /\ buffer' = prepend_to_buffer(rd.buffer, remaining_bytes(dec.stream))
               /\ payload_size' = dec.result.value.payload_size
               /\ prefix_bytes_read' = dec.result.value.prefix_bytes_read
               /\ pc' = "read_frame"
               /\ UNCHANGED stop
  /\ UNCHANGED <<zdata, zpos, zeofbit, avail_in, zpend, zdone, eof_compressed,
                 packet_index, last_timestamp_ms,
                 total_decompressed_bytes_processed, reports, fn_vars>>

\* the record process_stream prints for a packet with a parsed header
PacketReport(packet_data, header, payload_stream) ==
  LET payload_bytes == remaining_bytes(payload_stream)
      is_mpi == header.packet_type_val = 4 /\ Len(payload_bytes) >= 4
      shown == IF is_mpi THEN SubSeq(payload_bytes, 5, Len(payload_bytes))
                         ELSE payload_bytes
  IN [index |-> packet_index,
      prefix_bytes_read |-> prefix_bytes_read,
      payload_size |-> payload_size,
      packet_data |-> packet_data,
      bytes_read_for_header |-> header.bytes_read_for_header,
      packet_type_val |-> header.packet_type_val,
      type_name |-> get_packet_type_name(header.packet_type_val),
      timestamp_ms |-> header.timestamp_ms,
      payload_bytes |-> payload_bytes,
      mpi |-> IF is_mpi
                THEN Some([object_id |-> payload_bytes[1] + 256 * payload_bytes[2],
                           message_id |-> payload_bytes[3] + 256 * payload_bytes[4]])
                ELSE NullOpt,
      payload_hex |-> SubSeq(shown, 1, Min(Len(shown), 64))]

EmptyFrameStops_Never(size, packet_data) == FALSE

EmptyFrameStops_OnAnyShort(size, packet_data) ==
  ~(size.hi = 0 /\ size.lo = Len(packet_data))

\* packet_data.size() != payload_size, and packet_data.empty()
EmptyFrameStops(size, packet_data) ==
  /\ ~(size.hi = 0 /\ size.lo = Len(packet_data))
  /\ packet_data = <<>>

\* as FrameBytesCounted, counting the size the prefix declared
FrameBytesCounted_Declared(size, packet_data) ==
  IF size.hi > 0 THEN 65536 ELSE size.lo

\* total_decompressed_bytes_processed += packet_data.size()
FrameBytesCounted(size, packet_data) == Len(packet_data)

\* stream.read(payload_size), the header, the report, packet_index++
ReadFrame ==
  /\ pc = "read_frame"
  /\ ~NeedsFill
  /\ LET rd == stream_read(buffer, payload_size)
         packet_data == rd.result
         hdr == read_packet_header_from_stream(byte_stream_reader(packet_data),
                                               last_timestamp_ms)
     IN
     /\ buffer' = rd.buffer
     /\ last_read' = [size |-> payload_size, got |-> Len(packet_data)]
     /\ IF EmptyFrameStops(payload_size, packet_data)
          THEN /\ pc' = "end"
               /\ stop' = "empty_frame"
               /\ UNCHANGED <<packet_index, last_timestamp_ms,
                              total_decompressed_bytes_processed, reports>>
          ELSE /\ total_decompressed_bytes_processed' =
                    total_decompressed_bytes_processed +
                      FrameBytesCounted(payload_size, packet_data)
               /\ IF hdr.result.has_value
                    THEN /\ last_timestamp_ms' = hdr.result.value.timestamp_ms
                         /\ reports' = Append(reports,
                              PacketReport(packet_data, hdr.result.value, hdr.stream))
                    ELSE UNCHANGED <<last_timestamp_ms, reports>>
               /\ packet_index' = packet_index + 1
               /\ pc' = "is_eof"
               /\ UNCHANGED stop
  /\ UNCHANGED <<zdata, zpos, zeofbit, avail_in, zpend, zdone, eof_compressed,
                 payload_size, prefix_bytes_read, fn_vars>>

----------------------------------------------------------------------------
(* Inputs of a run: the decompressed stream and the way it is compressed *)

\* the pieces decompressed streams are assembled from
Pieces ==
  { <<128>>,                      \* 0x80: 1-byte prefix, size 0
    <<192>>,                      \* 0xC0: leading bits 11
    <<133>>,                      \* 0x85: 1-byte prefix, size 5
    <<64>>,                       \* 0x40: first byte of a 2-byte prefix
    <<16>>,                       \* 0x10: delta header, or a 4-byte prefix
    <<129, 16>>,                  \* frame: delta end_marker
    <<129, 20>>,                  \* frame: delta mpi, empty payload
    <<129, 19>>,                  \* frame: delta chat, empty payload
    <<130, 4, 7>>,                \* frame: explicit mpi, 1 of 4 timestamp bytes
    <<133, 4, 1, 0, 2, 0>>,       \* frame: explicit mpi, timestamp 0x00020001
    <<134, 4, 1, 0, 2, 0, 9>>,    \* the same with a payload of 1 byte
    <<64, 1, 16>>,                \* frame with a 2-byte prefix, size 1
    <<4, 16, 0, 0, 0>>,           \* 04 10 00 00 00
    <<132, 16, 0, 0, 0>> }        \* 84 10 00 00 00

RECURSIVE Streams(_)
Streams(n) ==
  IF n = 0 THEN {<<>>}
  ELSE LET S == Streams(n - 1) IN S \cup {s \o p : s \in S, p \in Pieces}

\* the data units of a stream, g bytes to a unit
RECURSIVE Units(_, _)
Units(plain, g) ==
  IF plain = <<>> THEN <<>>
  ELSE LET k == Min(g, Len(plain)) IN
       <<DataUnit(SubSeq(plain, 1, k))>> \o Units(SubSeq(plain, k + 1, Len(plain)), g)

Tails == {"complete", "trailing", "truncated", "corrupt"}

\* the 2-byte zlib header, the data units, and the end of the source
Compress(plain, g, tail) ==
  <<DataUnit(<<>>), DataUnit(<<>>)>> \o Units(plain, g) \o
  (CASE tail = "complete" -> <<EndUnit>>
     [] tail = "trailing" -> <<EndUnit, DataUnit(<<16>>)>>
     [] tail = "truncated" -> <<>>
     [] tail = "corrupt" -> <<BadUnit>>)

\* what the inflate engine can decode of a source
RECURSIVE Decompressed(_)
Decompressed(z) ==
  IF z = <<>> \/ Head(z).kind # "data" THEN <<>>
  ELSE Head(z).bytes \o Decompressed(Tail(z))

Corrupt(z) == \E i \in 1..Len(z) : z[i].kind = "bad"

Zero32 == [hi |-> 0, lo |-> 0]

InitDriver ==
  /\ packet_index = 0
  /\ last_timestamp_ms = Zero32
  /\ total_decompressed_bytes_processed = 0
  /\ payload_size = ToI64(0)
  /\ prefix_bytes_read = 0
  /\ reports = <<>>
  /\ stop = "running"
  /\ last_read = [size |-> ToI64(0), got |-> 0]

InitReader ==
  /\ zpos = 0
  /\ zeofbit = FALSE
  /\ avail_in = 0
  /\ zpend = <<>>
  /\ zdone = FALSE
  /\ buffer = <<>>
  /\ eof_compressed = FALSE

Init ==
  /\ \E plain \in Streams(MaxPieces), g \in 1..MaxExpand, tail \in Tails :
       zdata = Compress(plain, g, tail)
  /\ InitReader
  /\ InitDriver
  /\ pc = "is_eof"
  /\ fn_in = <<>>
  /\ fn_out = NullOpt

Next == FillStep \/ IsEof \/ ReadPrefix \/ ReadFrame

Spec == Init /\ [][Next]_vars

----------------------------------------------------------------------------
(* The size decoder on its own: cursors over arbitrary bytes, and cursors  *)
(* over an encoded size                                                    *)

FollowBytes == {0, 255}

RECURSIVE Follows(_)
Follows(n) ==
  IF n = 0 THEN {<<>>}
  ELSE LET S == Follows(n - 1) IN S \cup {s \o <<b>> : s \in S, b \in FollowBytes}

Sizes2 == (0..300) \cup {4095, 4096, 5461, 8191, 8192, 10922, 16382, 16383}

Sizes3 == {0, 1, 255, 256, 257, 65535, 65536, 699050, 1048576, 1398101,
           2097150, 2097151}

Sizes4 == {0, 1, 255, 256, 65535, 65536, 16777215, 16777216, 89478485,
           134217728, 178956970, 268435455}

Limbs5 == {0, 1, 255, 256, 4660, 32767, 32768, 65535}

Modes5 == {0, 5, 15}

\* the prefix whose decoding is the given size, in the given form
EncodeSize(form, size, mode) ==
  LET n == size.hi * 65536 + size.lo IN
  CASE form = 2 -> LET v == BitXor(n, 16384) IN <<v \div 256, v % 256>>
    [] form = 3 -> LET v == BitXor(n, 2097152) IN
                   <<v \div 65536, (v \div 256) % 256, v % 256>>
    [] form = 4 -> LET v == BitXor(n, 268435456) IN
                   <<v \div 16777216, (v \div 65536) % 256, (v \div 256) % 256, v % 256>>
    [] form = 5 -> <<mode, size.lo % 256, size.lo \div 256,
                     size.hi % 256, size.hi \div 256>>

SizeInputs ==
  {[form |-> 0, size |-> InvalidSize, bytes |-> <<b>> \o f] :
      b \in 0..255, f \in Follows(4)}
  \cup
  {[form |-> 2, size |-> ToI64(n), bytes |-> EncodeSize(2, ToI64(n), 0) \o f] :
      n \in Sizes2, f \in Follows(1)}
  \cup
  {[form |-> 3, size |-> ToI64(n), bytes |-> EncodeSize(3, ToI64(n), 0) \o f] :
      n \in Sizes3, f \in Follows(1)}
  \cup
  {[form |-> 4, size |-> ToI64(n), bytes |-> EncodeSize(4, ToI64(n), 0) \o f] :
      n \in Sizes4, f \in Follows(1)}
  \cup
  {[form |-> 5, size |-> [hi |-> h, lo |-> l],
    bytes |-> EncodeSize(5, [hi |-> h, lo |-> l], m) \o f] :
      h \in Limbs5, l \in Limbs5, m \in Modes5, f \in Follows(1)}

InitSize ==
  /\ zdata = <<>>
  /\ InitReader
  /\ InitDriver
  /\ pc = "size_call"
  /\ fn_in \in SizeInputs
  /\ fn_out = NullOpt

DecodeSize ==
  /\ pc = "size_call"
  /\ fn_out' = read_variable_length_size(byte_stream_reader(fn_in.bytes))
  /\ pc' = "size_done"
  /\ UNCHANGED <<reader_vars, driver_vars, fn_in>>

NextSize == DecodeSize

SpecSize == InitSize /\ [][NextSize]_vars

----------------------------------------------------------------------------
(* The deserializers alone, over payloads of up to MaxPayload bytes *)

PayloadBytes == {0, 1, 2, 7, 128}

\* std::endian::native
Natives == {"little", "big"}

DeserKinds == {"chat", "mpi"}

InitDeser ==
  /\ zdata = <<>>
  /\ InitReader
  /\ InitDriver
  /\ pc = "deser_call"
  /\ \E k \in DeserKinds, nat \in Natives, n \in 0..MaxPayload :
       \E p \in [1..n -> PayloadBytes] :
         fn_in = [kind |-> k, payload |-> p, native |-> nat]
  /\ fn_out = NullOpt

\* deserialize_chat
DeserializeChat ==
  /\ pc = "deser_call"
  /\ fn_in.kind = "chat"
  /\ fn_out' = deserialize_chat_packet(fn_in.payload)
  /\ pc' = "deser_done"
  /\ UNCHANGED <<reader_vars, driver_vars, fn_in>>

\* deserialize_mpi
DeserializeMpi ==
  /\ pc = "deser_call"
  /\ fn_in.kind = "mpi"
  /\ fn_out' = deserialize_mpi_packet(fn_in.payload, fn_in.native)
  /\ pc' = "deser_done"
  /\ UNCHANGED <<reader_vars, driver_vars, fn_in>>

NextDeser == DeserializeChat \/ DeserializeMpi

SpecDeser == InitDeser /\ [][NextDeser]_vars

----------------------------------------------------------------------------
(* Claims *)

\* C1: for every first byte with the top bit set and bit 6 clear (128..191),
\* read_variable_length_size returns payload size = the byte's low 7 bits and
\* prefix_bytes_read = 1, whatever follows, and the cursor has advanced by
\* exactly one byte.
C1_OneBytePrefix ==
  (pc = "size_done" /\ fn_in.bytes[1] >= 128 /\ fn_in.bytes[1] < 192) =>
    /\ fn_out.result.has_value
    /\ fn_out.result.value.payload_size = [hi |-> 0, lo |-> fn_in.bytes[1] % 128]
    /\ fn_out.result.value.prefix_bytes_read = 1
    /\ fn_out.stream.position_ = 1

C1_Witness ==
  /\ pc = "size_done"
  /\ fn_in.bytes = <<133, 255, 0, 0, 255>>
  /\ fn_out.result.value.payload_size.lo = 5
  /\ fn_out.stream.position_ = 1

\* C2: decoding the encoding of a size, in each of the 2-, 3-, 4- and 5-byte
\* forms, returns the size and a prefix length of 2, 3, 4 or 5.
C2_RoundTrip ==
  (pc = "size_done" /\ fn_in.form \in 2..5) =>
    /\ fn_out.result.has_value
    /\ fn_out.result.value.payload_size = fn_in.size
    /\ fn_out.result.value.prefix_bytes_read = fn_in.form
    /\ fn_out.stream.position_ = fn_in.form

C2_Witness ==
  /\ pc = "size_done"
  /\ fn_in.form = 5
  /\ fn_in.size = [hi |-> 32768, lo |-> 4660]
  /\ fn_out.result.value.payload_size = [hi |-> 32768, lo |-> 4660]


----------------------------------------------------------------------------
(* The driver at a step of its loop, as seen from outside the decoders *)

\* process_stream is about to decode a size prefix from its lookahead
AtPrefix == pc = "read_prefix" /\ ~NeedsFill

\* the lookahead: up to 5 bytes of the pending buffer
Lookahead == SubSeq(buffer, 1, Min(5, Len(buffer)))

\* bytes the prefix form announced by a first byte needs
PrefixLength(b) ==
  IF b >= 128 THEN 1
  ELSE IF b >= 64 THEN 2
  ELSE IF b >= 32 THEN 3
  ELSE IF b >= 16 THEN 4
  ELSE 5

\* process_stream is about to take the frame out of the pending buffer
AtFrame == pc = "read_frame" /\ ~NeedsFill

\* the bytes the frame read returns
Frame ==
  IF payload_size.hi > 0 \/ payload_size.lo > Len(buffer)
    THEN buffer
    ELSE SubSeq(buffer, 1, payload_size.lo)

DeclaredExceeds(n) == payload_size.hi > 0 \/ payload_size.lo > n

\* bit 0x10 of a header byte
IsDeltaForm(b) == (b \div 16) % 2 = 1

LittleEndian32(b) == [hi |-> b[3] + 256 * b[4], lo |-> b[1] + 256 * b[2]]

\* the inflate engine has nothing left it could write out
EngineExhausted ==
  /\ zpend = <<>>
  /\ zdone \/ (avail_in = 0 /\ zpos = Len(zdata))

LastReport == reports[Len(reports)]

Halted == pc \in {"end", "threw"}

----------------------------------------------------------------------------
\* C3: a size prefix whose first byte has leading bits 11, or whose form needs
\* more bytes than the lookahead holds, halts the run: no frame is read, no
\* packet is reported, packet_index is not advanced, and nothing happens after
\* the halt; when the stream starts with such a byte no packet is ever reported.
C3_InvalidPrefixHalts ==
  [][ /\ (AtPrefix /\ buffer # <<>> /\
           (buffer[1] >= 192 \/ Len(Lookahead) < PrefixLength(buffer[1])))
         => /\ pc' = "end"
            /\ stop' = "bad_prefix"
            /\ reports' = reports
            /\ packet_index' = packet_index
            /\ total_decompressed_bytes_processed' = total_decompressed_bytes_processed
            /\ last_timestamp_ms' = last_timestamp_ms
      /\ Halted => UNCHANGED vars
      /\ (Decompressed(zdata) # <<>> /\ Decompressed(zdata)[1] >= 192)
         => reports' = <<>> /\ packet_index' = 0 /\ pc' # "read_frame"
    ]_vars

C3_Witness ==
  /\ pc = "end"
  /\ stop = "bad_prefix"
  /\ packet_index = 0
  /\ reports = <<>>
  /\ last_read.got = 5
  /\ Decompressed(zdata) = <<192, 133, 4, 1, 0, 2, 0>>

\* the timestamp of the latest frame with an explicit header and all 4
\* timestamp bytes, 0 when there is none
RECURSIVE LastExplicitTimestamp(_)
LastExplicitTimestamp(rs) ==
  IF rs = <<>> THEN [hi |-> 0, lo |-> 0]
  ELSE LET f == rs[Len(rs)].packet_data IN
       IF ~IsDeltaForm(f[1]) /\ Len(f) >= 5
         THEN LittleEndian32(SubSeq(f, 2, 5))
         ELSE LastExplicitTimestamp(SubSeq(rs, 1, Len(rs) - 1))

\* C4: a frame with a delta-form header leaves last_timestamp_ms unchanged and
\* is reported with the timestamp held before it; a frame with an explicit
\* header and all 4 timestamp bytes sets last_timestamp_ms to their
\* little-endian value; last_timestamp_ms is always the latest complete
\* explicit timestamp, or 0.
C4_Timestamp ==
  [][ /\ (AtFrame /\ Frame # <<>> /\ IsDeltaForm(Frame[1]))
         => /\ last_timestamp_ms' = last_timestamp_ms
            /\ Len(reports') = Len(reports) + 1
            /\ reports'[Len(reports')].timestamp_ms = last_timestamp_ms
      /\ (AtFrame /\ Len(Frame) >= 5 /\ ~IsDeltaForm(Frame[1]))
         => /\ last_timestamp_ms' = LittleEndian32(SubSeq(Frame, 2, 5))
            /\ Len(reports') = Len(reports) + 1
            /\ reports'[Len(reports')].timestamp_ms = LittleEndian32(SubSeq(Frame, 2, 5))
      /\ last_timestamp_ms' = LastExplicitTimestamp(reports')
    ]_vars

C4_Witness ==
  /\ Len(reports) = 2
  /\ reports[1].packet_data = <<4, 1, 0, 2, 0>>
  /\ reports[1].timestamp_ms = [hi |-> 2, lo |-> 1]
  /\ reports[2].packet_data = <<16>>
  /\ reports[2].timestamp_ms = [hi |-> 2, lo |-> 1]
  /\ last_timestamp_ms = [hi |-> 2, lo |-> 1]

\* C5: a frame that starts with an explicit-form type byte followed by fewer
\* than 4 bytes is reported with that type and the timestamp held before it,
\* last_timestamp_ms stays as it was, and the loop goes on to its next test.
C5_TruncatedTimestamp ==
  [][ (AtFrame /\ Frame # <<>> /\ ~IsDeltaForm(Frame[1]) /\ Len(Frame) < 5)
      => /\ Len(reports') = Len(reports) + 1
         /\ reports' = Append(reports, reports'[Len(reports')])
         /\ reports'[Len(reports')].packet_type_val = Frame[1]
         /\ reports'[Len(reports')].timestamp_ms = last_timestamp_ms
         /\ reports'[Len(reports')].packet_data = Frame
         /\ last_timestamp_ms' = last_timestamp_ms
         /\ packet_index' = packet_index + 1
         /\ pc' = "is_eof"
         /\ stop' = "running"
    ]_vars

C5_Witness ==
  /\ Len(reports) = 2
  /\ reports[1].timestamp_ms = [hi |-> 2, lo |-> 1]
  /\ reports[2].packet_data = <<4, 7>>
  /\ reports[2].type_name = "mpi"
  /\ reports[2].bytes_read_for_header = 1
  /\ reports[2].timestamp_ms = [hi |-> 2, lo |-> 1]
  /\ last_timestamp_ms = [hi |-> 2, lo |-> 1]
  /\ pc = "is_eof"
  /\ stop = "running"

ScenarioA_04 == <<4, 16, 0, 0, 0>>

ScenarioA_84 == <<132, 16, 0, 0, 0>>

\* what Scenario A says of a finished run
ScenarioA_Outcome ==
  /\ pc = "end"
  /\ stop = "eof"
  /\ packet_index = 1
  /\ Len(reports) = 1
  /\ reports[1].prefix_bytes_read = 1
  /\ reports[1].payload_size = [hi |-> 0, lo |-> 4]
  /\ reports[1].packet_data = <<16, 0, 0, 0>>
  /\ reports[1].type_name = "end_marker"
  /\ reports[1].bytes_read_for_header = 1
  /\ reports[1].timestamp_ms = [hi |-> 0, lo |-> 0]
  /\ last_timestamp_ms = [hi |-> 0, lo |-> 0]

\* C6 as stated: the stream 04 10 00 00 00 yields one end_marker packet in
\* delta form with timestamp 0 behind a 1-byte prefix of size 4, and a clean end.
C6_ScenarioA_Original ==
  (Decompressed(zdata) = ScenarioA_04 /\ ~Corrupt(zdata) /\ Halted)
    => ScenarioA_Outcome

\* C6 amended: the stream 84 10 00 00 00 yields one end_marker packet in delta
\* form with timestamp 0 behind a 1-byte prefix of size 4, and a clean end.
C6_ScenarioA ==
  (Decompressed(zdata) = ScenarioA_84 /\ ~Corrupt(zdata))
    => /\ Len(reports) <= 1
       /\ Halted => ScenarioA_Outcome

C6_Witness ==
  /\ Decompressed(zdata) = ScenarioA_84
  /\ ~Corrupt(zdata)
  /\ ScenarioA_Outcome

\* a reported packet whose frame was shorter than its declared size
Incomplete(r) == ~(r.payload_size.hi = 0 /\ r.payload_size.lo = Len(r.packet_data))

\* C7: when the declared size of a frame exceeds the bytes that remain and at
\* least one remains, the frame is formed from all of them and reported; the
\* next end-of-data test is then true and neither a prefix nor a frame is read
\* after it.
C7_ShortFrame ==
  [][ /\ (AtFrame /\ buffer # <<>> /\ DeclaredExceeds(Len(buffer)))
         => /\ EngineExhausted
            /\ Len(reports') = Len(reports) + 1
            /\ reports' = Append(reports, reports'[Len(reports')])
            /\ reports'[Len(reports')].packet_data = buffer
            /\ buffer' = <<>>
            /\ pc' = "is_eof"
      /\ (reports # <<>> /\ Incomplete(LastReport))
         => /\ pc = "is_eof"
            /\ pc' = "end"
            /\ stop' = "eof"
            /\ reports' = reports
            /\ last_read' = last_read
    ]_vars

C7_Witness ==
  /\ pc = "end"
  /\ stop = "eof"
  /\ Len(reports) = 1
  /\ reports[1].payload_size = [hi |-> 0, lo |-> 5]
  /\ reports[1].packet_data = <<129, 16>>
  /\ Incomplete(reports[1])
  /\ packet_index = 1

\* the payload of a reported packet is one its type's deserializer rejects
DeserializeFails(r) ==
  \/ r.packet_type_val = 4 /\ ~deserialize_mpi_packet(r.payload_bytes, "little").ok
  \/ r.packet_type_val = 3 /\ chat_payload_insufficient(r.payload_bytes)

\* C8: a packet whose payload fails to deserialize for its type stops the run:
\* it is the last packet reported and no prefix or frame is read after it.
C8_DeserializeFailureStops ==
  \A i \in 1..Len(reports) :
    DeserializeFails(reports[i])
      => i = Len(reports) /\ pc \notin {"read_prefix", "read_frame"}

\* C9 as stated: a frame read that returns no bytes, whatever the declared
\* size, stops the run without a header, a report or an advance of packet_index.
C9_EmptyFrame_Original ==
  [][ (AtFrame /\ Frame = <<>>)
      => /\ pc' = "end"
         /\ reports' = reports
         /\ packet_index' = packet_index
    ]_vars

\* C9 amended: a frame read that returns no bytes for a declared size above 0
\* stops the run without a header, a report or an advance of packet_index; for
\* a declared size of 0 no header is decoded and nothing is reported, but
\* packet_index advances and the loop goes on.
C9_EmptyFrame ==
  [][ /\ (AtFrame /\ Frame = <<>> /\ DeclaredExceeds(0))
         => /\ pc' = "end"
            /\ stop' = "empty_frame"
            /\ reports' = reports
            /\ packet_index' = packet_index
            /\ last_timestamp_ms' = last_timestamp_ms
      /\ (AtFrame /\ ~DeclaredExceeds(0))
         => /\ pc' = "is_eof"
            /\ stop' = "running"
            /\ reports' = reports
            /\ packet_index' = packet_index + 1
            /\ last_timestamp_ms' = last_timestamp_ms
      /\ Halted => UNCHANGED vars
    ]_vars

C9_Witness ==
  /\ pc = "end"
  /\ stop = "empty_frame"
  /\ payload_size = [hi |-> 0, lo |-> 5]
  /\ last_read = [size |-> [hi |-> 0, lo |-> 5], got |-> 0]
  /\ packet_index = 1
  /\ reports = <<>>

\* C10: a read that returned fewer bytes than asked for has left the inflate
\* engine with nothing it could still write out: no output pending inside it,
\* and either the stream ended or every compressed byte was fed to it.
C10_ShortReadOnlyAtEnd ==
  (last_read.size.hi > 0 \/ last_read.got < last_read.size.lo) => EngineExhausted

C10_Witness ==
  /\ last_read.size = [hi |-> 0, lo |-> 5]
  /\ last_read.got = 2
  /\ ~zdone
  /\ EngineExhausted
  /\ Decompressed(zdata) = <<133, 129, 16>>
  /\ Len(reports) = 1

----------------------------------------------------------------------------
\* C11: is_eof() answers only after its pull of one byte has run, and answers
\* true only with an empty pending buffer and an inflate engine that has
\* signalled the end of the stream or has been fed the whole compressed input;
\* with a byte in the pending buffer, pushed back or not, it answers false.
C11_IsEof ==
  [][ /\ (pc = "is_eof" /\ pc' \in {"end", "read_prefix"})
         => buffer # <<>> \/ zdone \/ (avail_in = 0 /\ zpos = Len(zdata))
      /\ (pc = "is_eof" /\ pc' = "end")
         => /\ buffer = <<>>
            /\ zdone \/ (avail_in = 0 /\ zpos = Len(zdata))
      /\ (pc = "is_eof" /\ ~NeedsFill /\ buffer # <<>>)
         => pc' = "read_prefix"
    ]_vars

C11_Witness ==
  /\ pc = "end"
  /\ stop = "eof"
  /\ buffer = <<>>
  /\ ~zdone
  /\ avail_in = 0
  /\ zpos = Len(zdata)
  /\ Len(reports) = 2

----------------------------------------------------------------------------
\* the decompressed bytes no read has returned yet: the pending buffer, what
\* the inflate engine holds, and what it can still decode of the source
Unread ==
  buffer \o
  (IF zdone THEN <<>>
   ELSE zpend \o Decompressed(SubSeq(zdata, zpos - avail_in + 1, Len(zdata))))

\* what an iteration of fill_buffer can still do on reader r: units of the
\* source to decode (each at most MaxExpand bytes), decoded bytes to write
\* out, the end of the source to find, the end of the loop to signal
FillLeft(r) ==
  (MaxExpand + 1) * ((Len(r.zdata) - r.zpos) + r.avail_in) + Len(r.zpend) +
  (IF r.zeofbit THEN 0 ELSE 1) + (IF r.eof_compressed THEN 0 ELSE 1)

\* the position in the iteration of the driver loop, counted so that the
\* prefix read, which takes a byte, may lead to the frame read
PcRank ==
  CASE pc = "read_frame" -> 2
    [] pc = "is_eof" -> 1
    [] OTHER -> 0

\* bounds what is left of the run: lexicographically the unread bytes, the
\* position in the loop iteration, and what fill_buffer can still do
Variant == (3 * Len(Unread) + PcRank) * 1000 + FillLeft(Reader)

\* C12: process_stream terminates on every finite compressed input.  Every
\* step of the run that does not end it lowers Variant, which is never
\* negative; an iteration of the driver loop ends the run or takes at least
\* one decompressed byte (its size prefix); an iteration of fill_buffer ends
\* the run or lowers FillLeft, so it is never a step without effect, and the
\* one that finds the compressed source exhausted is the last of its loop.
C12_Terminates ==
  /\ [](/\ Variant >= 0
        /\ FillLeft(Reader) < 1000
        /\ NeedsFill => LET r == fill_buffer_iteration(Reader)
                        IN r.threw \/ FillLeft(r) < FillLeft(Reader))
  /\ [][ /\ Halted' \/ Variant' < Variant
         /\ AtPrefix => (pc' = "end" \/ Len(Unread') < Len(Unread))
         /\ (NeedsFill /\ avail_in = 0 /\ zpos = Len(zdata)) => ~NeedsFill'
         /\ Halted => UNCHANGED vars
       ]_vars

C12_Witness ==
  /\ pc = "end"
  /\ stop = "bad_prefix"
  /\ packet_index = 1
  /\ ~zdone
  /\ ~Corrupt(zdata)
  /\ zpos = Len(zdata)

----------------------------------------------------------------------------
\* the compressed input the next inflate call of fill_buffer works on
FillInput ==
  IF avail_in = 0 /\ ~zeofbit
    THEN SubSeq(zdata, zpos + 1, Min(zpos + CHUNK_SIZE, Len(zdata)))
    ELSE SubSeq(zdata, zpos - avail_in + 1, zpos)

\* that inflate call comes upon corrupt input: everything decoded ahead of
\* the corrupt unit fits the CHUNK_SIZE bytes of output room
HitsBad ==
  /\ ~zdone
  /\ \E j \in 1..Len(FillInput) :
        /\ FillInput[j].kind = "bad"
        /\ \A i \in 1..(j - 1) : FillInput[i].kind = "data"
        /\ Len(zpend) + Len(Decompressed(SubSeq(FillInput, 1, j - 1))) <= CHUNK_SIZE

\* C13: an inflate error ends the run wherever it occurs: in the end-of-data
\* test it leaves process_stream as an exception, in the lookahead read or the
\* frame read it is caught and breaks the loop; no packet is reported for the
\* frame in progress, the counters keep their values, and nothing is read or
\* reported afterwards.
C13_InflateError ==
  [][ /\ (NeedsFill /\ HitsBad)
         => /\ pc' = (IF pc = "is_eof" THEN "threw" ELSE "end")
            /\ stop' = (IF pc = "is_eof" THEN "uncaught_exception" ELSE "exception")
            /\ reports' = reports
            /\ packet_index' = packet_index
            /\ total_decompressed_bytes_processed' = total_decompressed_bytes_processed
      /\ (stop \in {"exception", "uncaught_exception"}) => UNCHANGED vars
    ]_vars

\* the error came in the read of a frame of 5 declared bytes
C13_Witness ==
  /\ pc = "end"
  /\ stop = "exception"
  /\ packet_index = 0
  /\ reports = <<>>
  /\ prefix_bytes_read = 1
  /\ payload_size = ToI64(5)

----------------------------------------------------------------------------
\* deserialize_mpi has returned for the payload of fn_in
MpiDone == pc = "deser_done" /\ fn_in.kind = "mpi"

\* C14: deserialize_mpi fails with insufficient_data exactly when the payload
\* is shorter than 4 bytes; otherwise object_id is the little-endian value of
\* bytes 0..1, message_id that of bytes 2..3, and the remaining payload is
\* bytes 4..end unchanged.
C14_Mpi ==
  MpiDone =>
    LET p == fn_in.payload IN
    IF Len(p) < 4
      THEN ~fn_out.ok /\ fn_out.error = "insufficient_data"
      ELSE /\ fn_out.ok
           /\ fn_out.object_id = p[1] + 256 * p[2]
           /\ fn_out.message_id = p[3] + 256 * p[4]
           /\ fn_out.payload = SubSeq(p, 5, Len(p))

----------------------------------------------------------------------------
\* deserialize_chat has returned for the payload of fn_in
ChatDone == pc = "deser_done" /\ fn_in.kind = "chat"

\* C15: deserialize_chat on an empty payload fails with insufficient_data
\* without any bit-level read; on a non-empty payload it never returns
\* insufficient_data.
C15_ChatInsufficient ==
  ChatDone =>
    IF fn_in.payload = <<>>
      THEN ~fn_out.ok /\ fn_out.error = "insufficient_data" /\ fn_out.ops = <<>>
      ELSE /\ fn_out.ok \/ fn_out.error # "insufficient_data"
           /\ fn_out.ops # <<>>

C15_Witness ==
  /\ ChatDone
  /\ fn_in.payload = <<>>
  /\ ~fn_out.ok

\* the bit-level operations of the names in S that the call performed
OpsNamed(S) == {i \in 1..Len(fn_out.ops) : fn_out.ops[i].op \in S}

\* bits left unread once the message body was read, for a call that succeeded
UnreadAfterMessage ==
  8 * Len(fn_in.payload) - fn_out.bits_read +
  (IF OpsNamed({"channel_id"}) # {} THEN 8 ELSE 0) +
  (IF OpsNamed({"is_enemy"}) # {} THEN 1 ELSE 0)

----------------------------------------------------------------------------
\* t is what is left of s after some of its first bytes
IsSuffix(t, s) ==
  Len(t) <= Len(s) /\ t = SubSeq(s, Len(s) - Len(t) + 1, Len(s))

\* C18: lookahead and pushback conserve bytes.  Filling the buffer and
\* testing for the end take nothing.  A valid prefix of p bytes takes exactly
\* the first p unread bytes: what the lookahead read beyond them is back at
\* the front of the pending buffer in its order, so the frame starts at the
\* byte after the prefix, also when fewer than 5 bytes were left.  The frame
\* read takes the next bytes as they are.  So what is unread is always the
\* rest of the decompressed stream: nothing skipped, repeated or reordered.
C18_Conserve ==
  [][ /\ (NeedsFill /\ pc' = pc) => Unread' = Unread
      /\ (pc = "is_eof" /\ ~NeedsFill) => Unread' = Unread
      /\ (AtPrefix /\ buffer # <<>> /\ buffer[1] < 192 /\
            Len(Lookahead) >= PrefixLength(buffer[1]))
         => LET p == PrefixLength(buffer[1]) IN
            /\ pc' = "read_frame"
            /\ prefix_bytes_read' = p
            /\ buffer' = SubSeq(buffer, p + 1, Len(buffer))
            /\ Unread' = SubSeq(Unread, p + 1, Len(Unread))
      /\ AtFrame
         => /\ Frame = SubSeq(Unread, 1, Len(Frame))
            /\ buffer' = SubSeq(buffer, Len(Frame) + 1, Len(buffer))
            /\ Unread' = SubSeq(Unread, Len(Frame) + 1, Len(Unread))
            /\ Len(reports') = Len(reports) + 1
                 => reports'[Len(reports')].packet_data = Frame
      /\ stop' \notin {"exception", "uncaught_exception"}
         => IsSuffix(Unread', Decompressed(zdata))
    ]_vars

\* a 2-byte prefix taken out of a lookahead of 5 bytes, a sixth one pending
C18_Witness ==
  /\ pc = "read_frame"
  /\ prefix_bytes_read = 2
  /\ last_read = [size |-> ToI64(5), got |-> 5]
  /\ buffer = <<16, 64, 1, 16>>

----------------------------------------------------------------------------
\* C19: when the loop condition has found is_eof() false the pending buffer
\* holds a byte, so the lookahead read returns at least one: the branch for a
\* lookahead of zero bytes is never taken, and a run ends by the end-of-data
\* test, by the break on a bad prefix or on an empty frame, or by an inflate
\* error.
C19_LookaheadNonEmpty ==
  /\ pc = "read_prefix" => buffer # <<>>
  /\ pc = "read_frame" => last_read.got >= 1
  /\ stop # "no_prefix"
  /\ Halted => stop \in {"eof", "bad_prefix", "empty_frame", "exception",
                         "uncaught_exception"}

\* a lookahead that found 2 bytes, not 5, and went on to the frame
C19_Witness ==
  /\ pc = "read_frame"
  /\ last_read = [size |-> ToI64(5), got |-> 2]
  /\ packet_index = 1

----------------------------------------------------------------------------
\* C20: read_variable_length_size never computes a negative size: the value
\* of the 2-, 3- and 4-byte forms is in [0, 2^14), [0, 2^21) and [0, 2^28),
\* that of the 5-byte form in [0, 2^32), so the negative-size check never
\* fires and the size is reported invalid (-1) only for a first byte with
\* leading bits 11.
C20_NonNegative ==
  (pc = "size_done" /\ fn_out.result.has_value) =>
    LET b == fn_in.bytes[1]
        v == fn_out.result.value
        size == v.payload_size
    IN /\ (size = InvalidSize) <=> (b >= 192)
       /\ IsNegative(size) <=> (b >= 192)
       /\ b < 192 =>
            /\ size.lo \in 0..65535
            /\ CASE v.prefix_bytes_read = 1 -> size.hi = 0 /\ size.lo < 128
                 [] v.prefix_bytes_read = 2 -> size.hi = 0 /\ size.lo < 16384
                 [] v.prefix_bytes_read = 3 -> size.hi \in 0..31
                 [] v.prefix_bytes_read = 4 -> size.hi \in 0..4095
                 [] v.prefix_bytes_read = 5 -> size.hi \in 0..65535
                 [] OTHER -> FALSE

\* the largest 5-byte size, 2^32 - 1
C20_Witness ==
  /\ pc = "size_done"
  /\ fn_in.bytes = <<0, 255, 255, 255, 255>>
  /\ fn_out.result.has_value
  /\ fn_out.result.value.prefix_bytes_read = 5
  /\ fn_out.result.value.payload_size = [hi |-> 65535, lo |-> 65535]

----------------------------------------------------------------------------
\* C21: for every reported frame, the header byte count and the payload
\* account for the whole frame when the header is of the delta form (count 1)
\* or of the explicit form with its 4 timestamp bytes (count 5).  An explicit
\* type byte followed by k < 4 bytes is reported with count 1 and an empty
\* payload: the k bytes are consumed and appear in neither.
C21_HeaderAndPayload ==
  \A i \in 1..Len(reports) :
    LET r == reports[i]
        f == r.packet_data
    IN /\ f # <<>>
       /\ IF IsDeltaForm(f[1])
            THEN /\ r.bytes_read_for_header = 1
                 /\ r.payload_bytes = SubSeq(f, 2, Len(f))
                 /\ r.bytes_read_for_header + Len(r.payload_bytes) = Len(f)
          ELSE IF Len(f) >= 5
            THEN /\ r.bytes_read_for_header = 5
                 /\ r.payload_bytes = SubSeq(f, 6, Len(f))
                 /\ r.bytes_read_for_header + Len(r.payload_bytes) = Len(f)
          ELSE /\ r.bytes_read_for_header = 1
               /\ r.payload_bytes = <<>>

\* an explicit frame with its timestamp and a payload byte, then an explicit
\* type byte with 1 byte after it
C21_Witness ==
  /\ Len(reports) = 2
  /\ reports[1].packet_data = <<4, 1, 0, 2, 0, 9>>
  /\ reports[1].bytes_read_for_header = 5
  /\ reports[1].payload_bytes = <<9>>
  /\ reports[2].packet_data = <<4, 7>>
  /\ reports[2].bytes_read_for_header = 1
  /\ reports[2].payload_bytes = <<>>

----------------------------------------------------------------------------
\* the bytes of the frames reported so far
RECURSIVE ReportedBytes(_)
ReportedBytes(rs) ==
  IF rs = <<>> THEN 0
  ELSE Len(rs[Len(rs)].packet_data) + ReportedBytes(SubSeq(rs, 1, Len(rs) - 1))

\* C22: total_decompressed_bytes_processed is the sum of the actual lengths
\* of the frames read so far, a short frame counted by the bytes obtained:
\* only the frame read adds to it, by the length of the frame it returns, so
\* prefix bytes are never counted and the total never decreases; a frame read
\* that stops the run on an empty read adds nothing, nor does a bad prefix or
\* an inflate error.  packet_index counts the iterations completed: the frame
\* read that does not stop the run advances it by one, nothing else changes it.
C22_Counters ==
  /\ [](/\ total_decompressed_bytes_processed = ReportedBytes(reports)
        /\ packet_index >= Len(reports)
        /\ \A i \in 1..Len(reports) :
             /\ reports[i].index < packet_index
             /\ i > 1 => reports[i - 1].index < reports[i].index)
  /\ [][ /\ IF AtFrame /\ ~(Frame = <<>> /\ DeclaredExceeds(0))
              THEN /\ total_decompressed_bytes_processed' =
                        total_decompressed_bytes_processed + Len(Frame)
                   /\ packet_index' = packet_index + 1
                   /\ ~Halted'
              ELSE /\ total_decompressed_bytes_processed' =
                        total_decompressed_bytes_processed
                   /\ packet_index' = packet_index
         /\ (AtFrame /\ Frame = <<>> /\ DeclaredExceeds(0)) => Halted'
       ]_vars

\* a frame of declared size 0, then one of 4 bytes: two iterations, one
\* report, and the 2 prefix bytes not in the total
C22_Witness ==
  /\ pc = "end"
  /\ stop = "eof"
  /\ packet_index = 2
  /\ Len(reports) = 1
  /\ reports[1].index = 1
  /\ reports[1].packet_data = <<16, 0, 0, 0>>
  /\ total_decompressed_bytes_processed = 4

====
